---------------------------- MODULE Spec2Model ----------------------------
(***************************************************************************)
(* The blog backend of app/index.js with its User model                    *)
(* (app/models/user.js) and the login flow the README adds to it: the      *)
(* users, posts and comments tables, the session store, the HTTP requests  *)
(* in flight, one per client, and the version of the User model that is    *)
(* loaded.  Every asynchronous operation of a handler (a Bookshelf fetch   *)
(* or save, a bcrypt hash or compare) is a suspension point: the action    *)
(* that starts it leaves the request at a pc, and the action that resumes  *)
(* it runs the promise callback.                                           *)
(***************************************************************************)
EXTENDS Integers, Sequences, FiniteSets, TLC

VARIABLES users, posts, comments, sessions, reqs, userModel

vars == <<users, posts, comments, sessions, reqs, userModel>>

---------------------------------------------------------------------------
(* Bounds of the model. *)
NumClients == 1
MaxUsers == 1
MaxPosts == 1
MaxComments == 1

(* bcrypt.hash(model.attributes.password, 10, ...) *)
BcryptRounds == 10

Clients == 1..NumClients
Usernames == {"alice", "bob"}
Plaintexts == {"correct", "wrong"}

(* The versions of app/models/user.js: the model whose validatePassword is *)
(* an arrow function, the model without hook and methods, and the model    *)
(* whose validatePassword is a function.                                   *)
UserVersions == {"arrow", "plain", "function"}

---------------------------------------------------------------------------
(* Values of the password column and of a password attribute: an absent   *)
(* attribute, a plain string, or a bcrypt hash string ($2a$10$...), of     *)
(* which the model keeps the cost and the text it was computed from (what  *)
(* compare reads), not the random salt.                                    *)
Undefined == [alg |-> "undefined", cost |-> 0, text |-> ""]

Str(t) == [alg |-> "text", cost |-> 0, text |-> t]

(* The null a fetch resolves with when no row matches. *)
NoUser == [id |-> 0, username |-> "", password |-> Undefined]

(* bcrypt.hash(data, rounds, cb): cb(err) when data is missing, else       *)
(* cb(null, hash) with a hash of data at the given cost.                   *)
bcryptHash(data, rounds) ==
    IF data.alg = "text"
    THEN [err |-> FALSE,
          hash |-> [alg |-> "bcrypt", cost |-> rounds, text |-> data.text]]
    ELSE [err |-> TRUE, hash |-> Undefined]

(* bcrypt.compare(data, hash, cb): cb(err) when an argument is missing,    *)
(* else cb(null, res); a stored value that is no bcrypt hash compares      *)
(* false with everything.                                                  *)
bcryptCompare(data, hash) ==
    IF data.alg = "undefined" \/ hash.alg = "undefined"
    THEN [err |-> TRUE, res |-> FALSE]
    ELSE [err |-> FALSE,
          res |-> (hash.alg = "bcrypt" /\ data.alg = "text"
                   /\ hash.text = data.text)]

(* encryptPassword without its model.set('password', hash): resolves with  *)
(* the hash and leaves the model's password as submitted.                  *)
encryptPassword_noSet(model) ==
    LET h == bcryptHash(model.password, BcryptRounds)
    IN  [rejected |-> h.err, model |-> model]

(* encryptPassword without its `if (err) return reject(err)`: the hook     *)
(* sets whatever bcrypt passed as hash and resolves.                       *)
encryptPassword_noReject(model) ==
    LET h == bcryptHash(model.password, BcryptRounds)
    IN  [rejected |-> FALSE, model |-> [model EXCEPT !.password = h.hash]]

(* User.encryptPassword(model): rejects with bcrypt's error, or sets the   *)
(* model's password to the hash and resolves.                              *)
encryptPassword(model) ==
    LET h == bcryptHash(model.password, BcryptRounds)
    IN  IF h.err
        THEN [rejected |-> TRUE, model |-> model]
        ELSE [rejected |-> FALSE, model |-> [model EXCEPT !.password = h.hash]]

(* User.validatePassword(suppliedPassword) on a fetched model: compares    *)
(* against self.attributes.password.                                       *)
validatePassword(self, suppliedPassword) ==
    LET c == bcryptCompare(suppliedPassword, self.password)
    IN  IF c.err
        THEN [rejected |-> TRUE, value |-> FALSE]
        ELSE [rejected |-> FALSE, value |-> c.res]

(* `this` at the top level of the module, which the arrow function        *)
(* captures: module.exports, an object that has no `attributes`.           *)
moduleThis == [hasAttributes |-> FALSE, attributes |-> NoUser]

(* validatePassword of the arrow-function version, called on a fetched     *)
(* model: `let self = this` binds the module's `this`, not the receiver,   *)
(* so `self.attributes.password` throws a TypeError in the promise         *)
(* executor and the promise rejects before bcrypt.compare is called.       *)
validatePasswordArrow(receiver, suppliedPassword) ==
    LET self == moduleThis
        c == bcryptCompare(suppliedPassword, self.attributes.password)
    IN  IF ~self.hasAttributes \/ c.err
        THEN [rejected |-> TRUE, value |-> FALSE]
        ELSE [rejected |-> FALSE, value |-> c.res]

(* usr.validatePassword(password) on a model of the loaded version that   *)
(* has the method.                                                         *)
usrValidatePassword(usr, password) ==
    IF userModel = "arrow"
    THEN validatePasswordArrow(usr, password)
    ELSE validatePassword(usr, password)

(* The listeners initialize registers on 'creating': encryptPassword, or   *)
(* none in the version of the model without initialize.                    *)
creating(model) ==
    IF userModel = "plain"
    THEN [rejected |-> FALSE, model |-> model]
    ELSE encryptPassword(model)

---------------------------------------------------------------------------
(* Bookshelf queries on the users table. *)
fetchByUsername(tbl, username) ==
    LET hit == {i \in 1..Len(tbl) : tbl[i].username = username}
    IN  IF hit = {} THEN NoUser ELSE tbl[CHOOSE i \in hit : TRUE]

fetchById(tbl, id) ==
    LET hit == {i \in 1..Len(tbl) : tbl[i].id = id}
    IN  IF hit = {} THEN NoUser ELSE tbl[CHOOSE i \in hit : TRUE]

(* users.username is unique (migration setup_blog). *)
UsernameTaken(tbl, username, exceptId) ==
    \E i \in 1..Len(tbl) : tbl[i].username = username /\ tbl[i].id # exceptId

---------------------------------------------------------------------------
(* One HTTP exchange of a client: the request (kind and parameters), the   *)
(* handler's position (pc), what the middleware and the strategy have put  *)
(* on it, and the response once sent.                                      *)
NoRequest ==
    [kind |-> "none", pc |-> "idle",
     username |-> "", password |-> Undefined, id |-> 0,
     model |-> NoUser,        \* the Bookshelf model the handler works on
     token |-> 0,             \* req.session.passport.user as loaded (0: none)
     decode |-> "none",       \* deserializeUser: identity, notfound, error
     user |-> NoUser,         \* req.user, set by passport from the session
     lookup |-> "none",       \* the strategy's fetch: found, missing, failed
     verify |-> "none",       \* validatePassword: true, false, error
     outcome |-> "none",      \* what the strategy passed to done
     outcomeId |-> 0,         \* id of the user of done(null, usr)
     dones |-> 0,             \* calls of done by the strategy
     sends |-> 0,             \* responses sent on res
     status |-> 0, location |-> "",
     sent |-> << >>,          \* user records in the response body
     sentPosts |-> << >>,     \* post records in the response body
     sentId |-> 0]            \* the {id: ...} of a create response

NewRequest(kind, username, password, id) ==
    [NoRequest EXCEPT !.kind = kind, !.pc = "start", !.username = username,
                      !.password = password, !.id = id]

(* res.sendStatus(code) *)
sendStatus(r, code) ==
    [r EXCEPT !.pc = "done", !.status = code, !.sends = @ + 1]

(* res.redirect(target) *)
redirect(r, target) ==
    [r EXCEPT !.pc = "done", !.status = 302, !.location = target,
              !.sends = @ + 1]

(* res.send(model or collection of users): the JSON of all attributes. *)
sendUsers(r, rows) ==
    [r EXCEPT !.pc = "done", !.status = 200, !.sent = rows, !.sends = @ + 1]

(* res.send({id: model.id}) *)
sendId(r, id) ==
    [r EXCEPT !.pc = "done", !.status = 200, !.sentId = id, !.sends = @ + 1]

---------------------------------------------------------------------------
(* Session Identity Codec (README): passport.serializeUser keeps user.id. *)
serializeUser(user) == user.id

(* deserializeUser with fetch({require: true}): a fetch that finds no row   *)
(* rejects, and the .catch reports done(err).                              *)
deserializeUser_require(token, tbl, dbOk) ==
    IF dbOk /\ fetchById(tbl, token) # NoUser
    THEN [err |-> FALSE, user |-> fetchById(tbl, token)]
    ELSE [err |-> TRUE, user |-> NoUser]

(* passport.deserializeUser: User.forge({id: user}).fetch(), then          *)
(* done(null, usr), usr null when no row has the id; done(err) when the    *)
(* fetch fails.                                                            *)
deserializeUser(token, tbl, dbOk) ==
    IF dbOk
    THEN [err |-> FALSE, user |-> fetchById(tbl, token)]
    ELSE [err |-> TRUE, user |-> NoUser]

(* passport's per-request step (README "what happens when a user loads a   *)
(* resource"): with req.session.passport.user set, deserialize it into     *)
(* req.user; token 0 stands for a session without a passport entry.        *)
passportSession(token, tbl, dbOk) ==
    IF token = 0
    THEN [err |-> FALSE, user |-> NoUser]
    ELSE deserializeUser(token, tbl, dbOk)

(* The middleware chain in front of every route, run on request r of       *)
(* client c: a failed deserialize ends the request with a server error.    *)
Enter(c, r, dbOk) ==
    LET m == passportSession(sessions[c], users, dbOk)
        r1 == [r EXCEPT !.token = sessions[c]]
    IN  IF m.err
        THEN sendStatus([r1 EXCEPT !.decode = "error"], 500)
        ELSE [r1 EXCEPT !.user = m.user,
                        !.decode = IF sessions[c] = 0 THEN "none"
                                   ELSE IF m.user = NoUser THEN "notfound"
                                   ELSE "identity"]

(* The route guard of the README, first form: admits when                  *)
(* req.session && req.session.passport, otherwise res.redirect('/login').  *)
(* The guard reads the request and leaves the session as it is.            *)
isAuthenticated_session(r) ==
    IF r.token # 0
    THEN [admit |-> TRUE, location |-> "", session |-> r.token]
    ELSE [admit |-> FALSE, location |-> "/login", session |-> r.token]

(* The route guard of the README, second form: admits when                 *)
(* req.isAuthenticated(), that is when req.user is defined.                *)
isAuthenticated(r) ==
    IF r.user # NoUser
    THEN [admit |-> TRUE, location |-> "", session |-> r.token]
    ELSE [admit |-> FALSE, location |-> "/login", session |-> r.token]

(* The store is read by the middleware only when the session has a token. *)
DecodeResults(c) == IF sessions[c] = 0 THEN {TRUE} ELSE BOOLEAN

(* The client has no request in flight. *)
CanSend(c) == reqs[c].pc \in {"idle", "done"}

---------------------------------------------------------------------------
(* The local strategy of app/index.js, passport.use(new LocalStrategy(...)) *)

(* done(err), done(null, false), done(null, usr): the strategy reports its *)
(* outcome Errored, Rejected or Authenticated to passport.                 *)
done(r, outcome, usr) ==
    [r EXCEPT !.outcome = outcome, !.outcomeId = usr.id, !.dones = @ + 1]

(* `done(null, usr)` in place of the `done(null, false)` of the found branch. *)
onFound_user(r, usr) == done(r, "Authenticated", usr)

(* The branch taken under `if (usr)`: return done(null, false). *)
onFound(r, usr) == done(r, "Rejected", NoUser)

(* The test of line 57, `if (usr)`: true of a fetched model, false of null. *)
ifUsr(usr) == usr # NoUser

(* The .then callback of the fetch.  A usr that passes `if (usr)` goes to  *)
(* done(null, false); otherwise usr.validatePassword(password) is          *)
(* evaluated, which with usr null throws a TypeError inside the callback,  *)
(* turned into done(err) by the .catch; so does a model that has no        *)
(* validatePassword.                                                       *)
strategyThen(r, usr) ==
    LET r1 == [r EXCEPT !.model = usr,
                        !.lookup = IF usr = NoUser THEN "missing" ELSE "found"]
    IN  IF ifUsr(usr)
        THEN onFound(r1, usr)
        ELSE IF usr = NoUser \/ userModel = "plain"
             THEN done(r1, "Errored", NoUser)
             ELSE [r1 EXCEPT !.pc = "compare"]

(* The .catch of the fetch: done(err). *)
strategyCatch(r) == done([r EXCEPT !.lookup = "failed"], "Errored", NoUser)

(* The callback on validatePassword's promise.  The promise is not         *)
(* returned to the outer chain and has no rejection handler: when it       *)
(* rejects, done is never called.                                          *)
strategyValidated(r) ==
    LET v == usrValidatePassword(r.model, r.password)
    IN  IF v.rejected
        THEN [r EXCEPT !.pc = "hung", !.verify = "error"]
        ELSE IF ~v.value
             THEN done([r EXCEPT !.verify = "false"], "Rejected", NoUser)
             ELSE done([r EXCEPT !.verify = "true"], "Authenticated", r.model)

(* The session after passport.authenticate has handled the outcome: a      *)
(* token is written whenever the strategy reported no error.               *)
loginSession_noError(token, r) ==
    IF r.outcome \in {"Authenticated", "Rejected"} /\ r.dones > 0
    THEN serializeUser(r.model)
    ELSE token

(* The session after passport.authenticate has handled the outcome         *)
(* (README, steps 5 to 7): with a user object, req.login stores            *)
(* serializeUser's value at req.session.passport.user.                     *)
loginSession(token, r) ==
    IF r.outcome = "Authenticated" /\ r.dones > 0
    THEN serializeUser(r.model)
    ELSE token

(* passport.authenticate('local', {failureRedirect: '/login'}) and the     *)
(* route's second callback (README app.post('/login')): a validated user   *)
(* is redirected to /posts, a failed or errored validation to /login.      *)
authenticate(r) ==
    IF r.dones = 0
    THEN r
    ELSE IF r.outcome = "Authenticated"
         THEN redirect(r, "/posts")
         ELSE redirect(r, "/login")

(* POST /login arrives: the middleware runs and the strategy starts        *)
(* User.forge({username: username}).fetch().                               *)
LoginRequest(c) ==
    /\ CanSend(c)
    /\ \E u \in Usernames, p \in Plaintexts, ok \in DecodeResults(c) :
         LET r == Enter(c, NewRequest("login", u, Str(p), 0), ok)
         IN  reqs' = [reqs EXCEPT ![c] =
                        IF r.pc = "done" THEN r ELSE [r EXCEPT !.pc = "fetch"]]
    /\ UNCHANGED <<users, posts, comments, sessions, userModel>>

(* The strategy with a `usr.save({password: password})` on the model it    *)
(* fetched: the row of a found user is rewritten with the submitted        *)
(* password while the outcome is reported as before.                       *)
LocalStrategy_save(c) ==
    /\ reqs[c].kind = "login"
    /\ reqs[c].pc \in {"fetch", "compare"}
    /\ \E dbOk \in BOOLEAN :
         LET r == reqs[c]
             usr == fetchByUsername(users, r.username)
             s == IF r.pc = "compare"
                  THEN strategyValidated(r)
                  ELSE IF dbOk
                       THEN strategyThen(r, usr)
                       ELSE strategyCatch(r)
         IN  /\ reqs' = [reqs EXCEPT ![c] = authenticate(s)]
             /\ sessions' = [sessions EXCEPT ![c] = loginSession(@, s)]
             /\ users' = IF dbOk /\ usr # NoUser
                         THEN [users EXCEPT ![usr.id].password = r.password]
                         ELSE users
    /\ UNCHANGED <<posts, comments, userModel>>

(* A pending promise of the strategy settles: the fetch (resolved with the *)
(* row or null, or rejected by the store), or validatePassword.  done      *)
(* hands control back to passport.authenticate in the same turn.           *)
LocalStrategy(c) ==
    /\ reqs[c].kind = "login"
    /\ reqs[c].pc \in {"fetch", "compare"}
    /\ \E dbOk \in BOOLEAN :
         LET r == reqs[c]
             s == IF r.pc = "compare"
                  THEN strategyValidated(r)
                  ELSE IF dbOk
                       THEN strategyThen(r, fetchByUsername(users, r.username))
                       ELSE strategyCatch(r)
         IN  /\ reqs' = [reqs EXCEPT ![c] = authenticate(s)]
             /\ sessions' = [sessions EXCEPT ![c] = loginSession(@, s)]
    /\ UNCHANGED <<users, posts, comments, userModel>>

---------------------------------------------------------------------------
(* The CRUD routes of app/index.js *)

(* Bodies of POST /user; "" and Undefined stand for an attribute the body   *)
(* does not have, id 0 for a body without id: the empty body, a new user   *)
(* with or without password, and a password for the user with a given id.  *)
UserBodies ==
    [id : {0}, username : {"", "alice"}, password : {Undefined}]
    \cup [id : {0}, username : Usernames, password : {Str("correct")}]
    \cup [id : 1..MaxUsers, username : {""}, password : {Str("correct")}]

(* _.isEmpty(req.body) *)
isEmpty(body) == body.id = 0 /\ body.username = "" /\ body.password = Undefined

(* Bookshelf's isNew(): a model without id is inserted, one with id updated. *)
isNew(model) == model.id = 0

(* The row an update leaves: the attributes the model has replace the      *)
(* row's, the others stay.                                                  *)
updatedRow(row, model) ==
    [id |-> row.id,
     username |-> IF model.username = "" THEN row.username ELSE model.username,
     password |-> IF model.password = Undefined THEN row.password
                  ELSE model.password]

(* GET /user/:id arrives: User.forge({id}).fetch() starts. *)
GetUserRequest(c) ==
    /\ CanSend(c)
    /\ \E id \in 1..MaxUsers, ok \in DecodeResults(c) :
         LET r == Enter(c, NewRequest("getUser", "", Undefined, id), ok)
         IN  reqs' = [reqs EXCEPT ![c] =
                        IF r.pc = "done" THEN r ELSE [r EXCEPT !.pc = "fetch"]]
    /\ UNCHANGED <<users, posts, comments, sessions, userModel>>

(* The fetch of GET /user/:id settles: 404 for no row, the user record     *)
(* otherwise, 500 from the .catch.                                         *)
GetUserFetched(c) ==
    /\ reqs[c].kind = "getUser" /\ reqs[c].pc = "fetch"
    /\ \E dbOk \in BOOLEAN :
         LET r == reqs[c]
             usr == fetchById(users, r.id)
         IN  reqs' = [reqs EXCEPT ![c] =
                        IF ~dbOk THEN sendStatus(r, 500)
                        ELSE IF usr = NoUser THEN sendStatus(r, 404)
                        ELSE sendUsers(r, <<usr>>)]
    /\ UNCHANGED <<users, posts, comments, sessions, userModel>>

(* GET /users arrives: User.fetchAll() starts. *)
GetUsersRequest(c) ==
    /\ CanSend(c)
    /\ \E ok \in DecodeResults(c) :
         LET r == Enter(c, NewRequest("getUsers", "", Undefined, 0), ok)
         IN  reqs' = [reqs EXCEPT ![c] =
                        IF r.pc = "done" THEN r ELSE [r EXCEPT !.pc = "fetch"]]
    /\ UNCHANGED <<users, posts, comments, sessions, userModel>>

(* fetchAll settles: the collection is sent; the chain has no .catch, so   *)
(* a rejection leaves the request without a response.                      *)
GetUsersFetched(c) ==
    /\ reqs[c].kind = "getUsers" /\ reqs[c].pc = "fetch"
    /\ \E dbOk \in BOOLEAN :
         reqs' = [reqs EXCEPT ![c] =
                    IF dbOk THEN sendUsers(@, users) ELSE [@ EXCEPT !.pc = "hung"]]
    /\ UNCHANGED <<users, posts, comments, sessions, userModel>>

(* POST /user arrives: 400 for an empty body; otherwise                    *)
(* User.forge(req.body).save() starts, as an insert, which first triggers  *)
(* 'creating' (encryptPassword), or as an update of the row with the       *)
(* body's id.                                                              *)
PostUserRequest(c) ==
    /\ CanSend(c)
    /\ \E body \in UserBodies, ok \in DecodeResults(c) :
         LET r == Enter(c, NewRequest("postUser", body.username, body.password,
                                      body.id), ok)
         IN  reqs' = [reqs EXCEPT ![c] =
                        IF r.pc = "done" THEN r
                        ELSE IF isEmpty(body) THEN sendStatus(r, 400)
                        ELSE [r EXCEPT !.model = body,
                                       !.pc = IF isNew(body) THEN "creating"
                                              ELSE "updating"]]
    /\ UNCHANGED <<users, posts, comments, sessions, userModel>>

(* The listeners of 'creating' have settled (bcrypt.hash called back in   *)
(* encryptPassword): on an error the save rejects and the .catch answers   *)
(* 500; otherwise the model's password is the hash and the insert starts.  *)
(* Without a listener the insert starts with the model as forged.          *)
PostUserHashed(c) ==
    /\ reqs[c].kind = "postUser" /\ reqs[c].pc = "creating"
    /\ LET r == reqs[c]
           e == creating(r.model)
       IN  reqs' = [reqs EXCEPT ![c] =
                      IF e.rejected THEN sendStatus(r, 500)
                      ELSE [r EXCEPT !.model = e.model, !.pc = "inserting"]]
    /\ UNCHANGED <<users, posts, comments, sessions, userModel>>

(* The insert or update of save() settles: the row is written and its id   *)
(* sent, or the store rejects (a failure, a username already taken, an     *)
(* update that matches no row) and the .catch answers 500.                 *)
PostUserSaved(c) ==
    /\ reqs[c].kind = "postUser" /\ reqs[c].pc \in {"inserting", "updating"}
    /\ \E dbOk \in (IF reqs[c].pc = "inserting" /\ Len(users) >= MaxUsers
                    THEN {FALSE} ELSE BOOLEAN) :
         LET r == reqs[c]
             m == r.model
             taken == m.username # "" /\ UsernameTaken(users, m.username, m.id)
         IN  IF ~dbOk \/ taken \/ (r.pc = "updating" /\ fetchById(users, m.id) = NoUser)
             THEN /\ reqs' = [reqs EXCEPT ![c] = sendStatus(r, 500)]
                  /\ users' = users
             ELSE IF r.pc = "inserting"
             THEN /\ users' = Append(users, [m EXCEPT !.id = Len(users) + 1])
                  /\ reqs' = [reqs EXCEPT ![c] = sendId(r, Len(users) + 1)]
             ELSE /\ users' = [users EXCEPT ![m.id] = updatedRow(@, m)]
                  /\ reqs' = [reqs EXCEPT ![c] = sendId(r, m.id)]
    /\ UNCHANGED <<posts, comments, sessions, userModel>>

(* res.send(posts): the post records, and with withRelated the record of  *)
(* each author.                                                            *)
sendPosts(r, rows, authors) ==
    [r EXCEPT !.pc = "done", !.status = 200, !.sentPosts = rows,
              !.sent = authors, !.sends = @ + 1]

(* GET /posts arrives: the route has the handler alone, which starts       *)
(* Post.collection().fetch().                                              *)
GetPostsRequest(c) ==
    /\ CanSend(c)
    /\ \E ok \in DecodeResults(c) :
         LET r == Enter(c, NewRequest("getPosts", "", Undefined, 0), ok)
         IN  reqs' = [reqs EXCEPT ![c] =
                        IF r.pc = "done" THEN r ELSE [r EXCEPT !.pc = "fetch"]]
    /\ UNCHANGED <<users, posts, comments, sessions, userModel>>

(* The fetch of GET /posts settles: the collection, or 500. *)
GetPostsFetched(c) ==
    /\ reqs[c].kind = "getPosts" /\ reqs[c].pc = "fetch"
    /\ \E dbOk \in BOOLEAN :
         reqs' = [reqs EXCEPT ![c] =
                    IF dbOk THEN sendPosts(@, posts, << >>) ELSE sendStatus(@, 500)]
    /\ UNCHANGED <<users, posts, comments, sessions, userModel>>

(* GET /post/:id arrives: Post.forge({id}).fetch({withRelated: ['author',  *)
(* 'comments']}) starts.                                                   *)
GetPostRequest(c) ==
    /\ CanSend(c)
    /\ \E id \in 1..MaxPosts, ok \in DecodeResults(c) :
         LET r == Enter(c, NewRequest("getPost", "", Undefined, id), ok)
         IN  reqs' = [reqs EXCEPT ![c] =
                        IF r.pc = "done" THEN r ELSE [r EXCEPT !.pc = "fetch"]]
    /\ UNCHANGED <<users, posts, comments, sessions, userModel>>

(* The fetch of GET /post/:id settles: 404, the post with its author's     *)
(* record, or 500.                                                         *)
GetPostFetched(c) ==
    /\ reqs[c].kind = "getPost" /\ reqs[c].pc = "fetch"
    /\ \E dbOk \in BOOLEAN :
         LET r == reqs[c]
             author == IF r.id <= Len(posts)
                       THEN fetchById(users, posts[r.id].author) ELSE NoUser
         IN  reqs' = [reqs EXCEPT ![c] =
                        IF ~dbOk THEN sendStatus(r, 500)
                        ELSE IF r.id > Len(posts) THEN sendStatus(r, 404)
                        ELSE sendPosts(r, <<posts[r.id]>>,
                                       IF author = NoUser THEN << >>
                                       ELSE <<author>>)]
    /\ UNCHANGED <<users, posts, comments, sessions, userModel>>

(* POST /post arrives: 400 for an empty body (author 0), otherwise         *)
(* Post.forge(req.body).save() starts; the bodies tried are the empty one  *)
(* and a post whose author is user 1.                                      *)
PostPostRequest(c) ==
    /\ CanSend(c)
    /\ \E author \in {0, 1}, ok \in DecodeResults(c) :
         LET r == Enter(c, NewRequest("postPost", "", Undefined, author), ok)
         IN  reqs' = [reqs EXCEPT ![c] =
                        IF r.pc = "done" THEN r
                        ELSE IF author = 0 THEN sendStatus(r, 400)
                        ELSE [r EXCEPT !.pc = "inserting"]]
    /\ UNCHANGED <<users, posts, comments, sessions, userModel>>

(* The insert of POST /post settles: the new id, or 500. *)
PostPostSaved(c) ==
    /\ reqs[c].kind = "postPost" /\ reqs[c].pc = "inserting"
    /\ \E dbOk \in (IF Len(posts) >= MaxPosts THEN {FALSE} ELSE BOOLEAN) :
         IF dbOk
         THEN /\ posts' = Append(posts, [id |-> Len(posts) + 1,
                                         author |-> reqs[c].id])
              /\ reqs' = [reqs EXCEPT ![c] = sendId(@, Len(posts) + 1)]
         ELSE /\ posts' = posts
              /\ reqs' = [reqs EXCEPT ![c] = sendStatus(@, 500)]
    /\ UNCHANGED <<users, comments, sessions, userModel>>

(* POST /comment arrives: 400 for an empty body (post 0), otherwise        *)
(* Comment.forge(req.body).save() starts; the bodies tried are the empty   *)
(* one and a comment on post 1.                                            *)
PostCommentRequest(c) ==
    /\ CanSend(c)
    /\ \E post \in {0, 1}, ok \in DecodeResults(c) :
         LET r == Enter(c, NewRequest("postComment", "", Undefined, post), ok)
         IN  reqs' = [reqs EXCEPT ![c] =
                        IF r.pc = "done" THEN r
                        ELSE IF post = 0 THEN sendStatus(r, 400)
                        ELSE [r EXCEPT !.pc = "inserting"]]
    /\ UNCHANGED <<users, posts, comments, sessions, userModel>>

(* The insert of POST /comment settles: the new id, or 500. *)
PostCommentSaved(c) ==
    /\ reqs[c].kind = "postComment" /\ reqs[c].pc = "inserting"
    /\ \E dbOk \in (IF Len(comments) >= MaxComments THEN {FALSE} ELSE BOOLEAN) :
         IF dbOk
         THEN /\ comments' = Append(comments, [id |-> Len(comments) + 1,
                                               post_id |-> reqs[c].id])
              /\ reqs' = [reqs EXCEPT ![c] = sendId(@, Len(comments) + 1)]
         ELSE /\ comments' = comments
              /\ reqs' = [reqs EXCEPT ![c] = sendStatus(@, 500)]
    /\ UNCHANGED <<users, posts, sessions, userModel>>

---------------------------------------------------------------------------
(* The server after start-up: the tables as migrated, the memory session   *)
(* store empty, no request received, the User model in its last version.   *)
Init ==
    /\ users = << >>
    /\ posts = << >>
    /\ comments = << >>
    /\ sessions = [c \in Clients |-> 0]
    /\ reqs = [c \in Clients |-> NoRequest]
    /\ userModel = "function"

(* The login and the routes on users and posts.  POST /comment reads and   *)
(* writes the comments table alone and is a step of NextRoutes below.      *)
Next ==
    \E c \in Clients :
        \/ LoginRequest(c)
        \/ LocalStrategy(c)
        \/ GetUserRequest(c)
        \/ GetUserFetched(c)
        \/ GetUsersRequest(c)
        \/ GetUsersFetched(c)
        \/ PostUserRequest(c)
        \/ PostUserHashed(c)
        \/ PostUserSaved(c)
        \/ GetPostsRequest(c)
        \/ GetPostsFetched(c)
        \/ GetPostRequest(c)
        \/ GetPostFetched(c)
        \/ PostPostRequest(c)
        \/ PostPostSaved(c)

Spec == Init /\ [][Next]_vars

(* Every route of app/index.js, POST /comment included. *)
NextRoutes ==
    \/ Next
    \/ \E c \in Clients :
           \/ PostCommentRequest(c)
           \/ PostCommentSaved(c)

(* A callback whose promise has settled is run by the event loop: the      *)
(* pending store operation or bcrypt call of client c's request completes  *)
(* and its handler continues.                                              *)
Settle(c) ==
    \/ LocalStrategy(c)
    \/ GetUserFetched(c)
    \/ GetUsersFetched(c)
    \/ PostUserHashed(c)
    \/ PostUserSaved(c)
    \/ GetPostsFetched(c)
    \/ GetPostFetched(c)
    \/ PostPostSaved(c)
    \/ PostCommentSaved(c)

(* All routes, with every pending operation settling in the end; clients   *)
(* are free to send requests or not.                                       *)
SpecRoutes ==
    Init /\ [][NextRoutes]_vars /\ \A c \in Clients : WF_vars(Settle(c))

(* The server started with any of the versions of app/models/user.js. *)
InitVersions ==
    /\ users = << >>
    /\ posts = << >>
    /\ comments = << >>
    /\ sessions = [c \in Clients |-> 0]
    /\ reqs = [c \in Clients |-> NoRequest]
    /\ userModel \in UserVersions

SpecVersions == InitVersions /\ [][Next]_vars

(* The codec and the guard take the session as their input: the server     *)
(* with client 1 holding a session whose entry is {user: 1}, written by an *)
(* earlier login, while the users table may have no row with that id.      *)
InitSessions ==
    /\ users = << >>
    /\ posts = << >>
    /\ comments = << >>
    /\ sessions = [c \in Clients |-> IF c = 1 THEN 1 ELSE 0]
    /\ reqs = [c \in Clients |-> NoRequest]
    /\ userModel = "function"

SpecSessions == InitSessions /\ [][Next]_vars

---------------------------------------------------------------------------
(* Properties of the local strategy *)

(* Login request of client c on which the strategy has called done. *)
LoginFinished(c) == reqs[c].kind = "login" /\ reqs[c].dones > 0

(* The password of the login request matches the hash of the fetched user. *)
PasswordMatches(r) ==
    LET cmp == bcryptCompare(r.password, r.model.password)
    IN  ~cmp.err /\ cmp.res

(* C1: every login attempt whose username has a user record and whose      *)
(* password matches that record's hash finishes with done(null, usr)       *)
(* carrying that user's id, never Rejected or Errored.                     *)
C1_ValidLoginAuthenticates ==
    \A c \in Clients :
        (LoginFinished(c) /\ reqs[c].lookup = "found" /\ PasswordMatches(reqs[c]))
            => (reqs[c].outcome = "Authenticated"
                /\ reqs[c].outcomeId = reqs[c].model.id)

(* C2: every login attempt whose username matches no user record finishes  *)
(* Rejected, with the same outcome and response as an attempt with an      *)
(* existing username and a wrong password.                                 *)
C2_UnknownUserRejected ==
    /\ \A c \in Clients :
         (LoginFinished(c) /\ reqs[c].lookup = "missing")
             => reqs[c].outcome = "Rejected"
    /\ \A c, d \in Clients :
         (/\ LoginFinished(c) /\ reqs[c].lookup = "missing"
          /\ LoginFinished(d) /\ reqs[d].lookup = "found"
          /\ ~PasswordMatches(reqs[d]))
             => (/\ reqs[c].outcome = reqs[d].outcome
                 /\ reqs[c].status = reqs[d].status
                 /\ reqs[c].location = reqs[d].location)

(* C3: when the strategy calls done for a login attempt with an existing   *)
(* username and a password that does not match the stored hash, the        *)
(* outcome is Rejected and that step writes nothing to the session.        *)
C3_WrongPasswordRejected ==
    [][\A c \in Clients :
          (/\ reqs[c].kind = "login" /\ reqs[c].dones = 0
           /\ reqs'[c].kind = "login" /\ reqs'[c].dones > 0
           /\ reqs'[c].lookup = "found" /\ ~PasswordMatches(reqs'[c]))
              => (reqs'[c].outcome = "Rejected" /\ sessions'[c] = sessions[c])]_vars

(* A login with an existing username and a wrong password has finished     *)
(* Rejected and its session holds no token.                                *)
C3_Witness ==
    \E c \in Clients :
        /\ LoginFinished(c) /\ reqs[c].pc = "done"
        /\ reqs[c].lookup = "found" /\ ~PasswordMatches(reqs[c])
        /\ reqs[c].outcome = "Rejected" /\ sessions[c] = 0

(* C4: a login attempt whose lookup or password verification failed with   *)
(* an error finishes Errored, and an attempt in which neither failed       *)
(* never finishes Errored.                                                 *)
C4_ErroredIffFailure ==
    \A c \in Clients :
        reqs[c].kind = "login" =>
            /\ (reqs[c].lookup = "failed" \/ reqs[c].verify = "error")
                   => reqs[c].outcome = "Errored"
            /\ reqs[c].outcome = "Errored"
                   => (reqs[c].lookup = "failed" \/ reqs[c].verify = "error")

---------------------------------------------------------------------------
(* Properties of the routes *)

C6_HashNeverExposed ==
    \A c \in Clients :
        /\ \A i \in 1..Len(reqs[c].sent) : reqs[c].sent[i].password.alg # "bcrypt"
        /\ sessions[c] \in 0..MaxUsers

(* The middleware has run on the request of client c and passed it on. *)
Entered(c) == reqs[c].kind # "none" /\ reqs[c].decode # "error"

(* C7: a GET /posts request whose session holds no identity is redirected  *)
(* to /login, and its handler never fetches or sends the posts.            *)
C7_PostsProtected ==
    \A c \in Clients :
        (reqs[c].kind = "getPosts" /\ Entered(c) /\ reqs[c].user = NoUser)
            => /\ reqs[c].pc # "fetch"
               /\ reqs[c].pc = "done"
                    => (reqs[c].status = 302 /\ reqs[c].location = "/login")

---------------------------------------------------------------------------
(* Properties of the session: guard, codec, life cycle *)

(* C8: either form of isAuthenticated admits a request exactly when its    *)
(* session state holds a decoded identity (req.user); any other request    *)
(* is redirected to /login with its session unchanged.                     *)
C8_GuardAdmitsIffIdentity ==
    \A c \in Clients :
        Entered(c) =>
            \A g \in {isAuthenticated_session(reqs[c]), isAuthenticated(reqs[c])} :
                /\ g.admit <=> reqs[c].user # NoUser
                /\ ~g.admit => (g.location = "/login" /\ g.session = reqs[c].token)

(* C9: decode(encode(u)) is the identity with u's id for every stored      *)
(* user u, decode of a token no row has is NotFound (null, no error), and  *)
(* the req.user a request got from its session has the token's id.         *)
C9_CodecRoundTrip ==
    /\ \A i \in 1..Len(users) :
         LET d == deserializeUser(serializeUser(users[i]), users, TRUE)
         IN  ~d.err /\ d.user # NoUser /\ d.user.id = users[i].id
    /\ \A t \in 1..(MaxUsers + 1) :
         fetchById(users, t) = NoUser
             => deserializeUser(t, users, TRUE) = [err |-> FALSE, user |-> NoUser]
    /\ \A c \in Clients :
         /\ reqs[c].decode = "identity"
              => (reqs[c].user # NoUser /\ reqs[c].user.id = reqs[c].token)
         /\ reqs[c].decode = "notfound"
              => (reqs[c].user = NoUser /\ reqs[c].token # 0)

(* A request resolved its session token to the stored user with that id,   *)
(* and a token no row has decodes to null without error.                   *)
C9_Witness ==
    \E c \in Clients :
        /\ reqs[c].decode = "identity" /\ reqs[c].token # 0
        /\ reqs[c].user = users[reqs[c].token]
        /\ serializeUser(reqs[c].user) = reqs[c].token
        /\ deserializeUser(Len(users) + 1, users, TRUE)
               = [err |-> FALSE, user |-> NoUser]

C11_LoginThenSessionResolves ==
    \A c \in Clients :
        (/\ LoginFinished(c) /\ reqs[c].pc = "done"
         /\ reqs[c].lookup = "found" /\ PasswordMatches(reqs[c]))
            => /\ sessions[c] = serializeUser(reqs[c].model)
               /\ passportSession(sessions[c], users, TRUE).user.id
                      = reqs[c].model.id

---------------------------------------------------------------------------
(* Properties of the password hasher and of the strategy's steps *)

(* bcrypt.hash fails on the password of the model of POST /user request r. *)
HashFails(r) == bcryptHash(r.model.password, BcryptRounds).err

(* C12: when the 'creating' hook of a POST /user runs on a model whose     *)
(* password bcrypt.hash fails on, the hook rejects: the request is         *)
(* answered 500 without a created id and the users table stays as it was.  *)
C12_HashFailureNoRow ==
    [][\A c \in Clients :
          (/\ reqs[c].kind = "postUser" /\ reqs[c].pc = "creating"
           /\ HashFails(reqs[c])
           /\ reqs'[c] # reqs[c])
              => (/\ reqs'[c].pc = "done" /\ reqs'[c].status = 500
                  /\ reqs'[c].sentId = 0
                  /\ users' = users)]_vars

(* A POST /user with a username and no password has been answered 500 and  *)
(* no row has that username.                                               *)
C12_Witness ==
    \E c \in Clients :
        /\ reqs[c].kind = "postUser" /\ reqs[c].pc = "done"
        /\ reqs[c].model.username = "alice" /\ reqs[c].model.id = 0
        /\ HashFails(reqs[c])
        /\ reqs[c].status = 500 /\ reqs[c].sentId = 0
        /\ fetchByUsername(users, "alice") = NoUser

(* Passwords a caller may hand to validatePassword: a string or nothing. *)
Supplied == {Str(p) : p \in Plaintexts} \cup {Undefined}

(* C13: validatePassword called on a fetched user with a supplied password *)
(* rejects exactly when bcrypt.compare of that password with the user's    *)
(* own stored password errors, and otherwise resolves true exactly when    *)
(* the two match.                                                          *)
C13_ValidatePasswordOwnHash ==
    userModel # "plain" =>
        \A i \in 1..Len(users), p \in Supplied :
            LET v == usrValidatePassword(users[i], p)
                cmp == bcryptCompare(p, users[i].password)
            IN  /\ v.rejected <=> cmp.err
                /\ ~v.rejected => (v.value <=> cmp.res)

(* C14: a step of the strategy of a login request leaves the users table   *)
(* as it was, whatever the outcome, and leaves every session as it was;    *)
(* the one write to the session in that step is req.login's, of the id of  *)
(* an Authenticated outcome.                                               *)
C14_StrategyNoSideEffects ==
    [][\A c \in Clients :
          (/\ reqs[c].kind = "login" /\ reqs[c].pc \in {"fetch", "compare"}
           /\ reqs'[c] # reqs[c])
              => (/\ users' = users
                  /\ reqs'[c].outcome \in {"Rejected", "Errored"}
                        => sessions' = sessions
                  /\ reqs'[c].outcome = "Authenticated"
                        => sessions' = [sessions EXCEPT
                                           ![c] = reqs'[c].outcomeId])]_vars

(* A login whose lookup failed has finished Errored while the users table  *)
(* holds a user with a hashed password and the session is Anonymous.       *)
C14_Witness ==
    \E c \in Clients :
        /\ LoginFinished(c) /\ reqs[c].lookup = "failed"
        /\ reqs[c].outcome = "Errored"
        /\ Len(users) > 0 /\ users[1].password.alg = "bcrypt"
        /\ sessions[c] = 0

(* C15: within a login request the strategy looks the user up, then        *)
(* verifies the password, then reports: a verification belongs to a found  *)
(* user, an outcome to a finished lookup, and no outcome is reported for a *)
(* found user before validatePassword has completed.                       *)
C15_LookupVerifyOutcome ==
    \A c \in Clients :
        reqs[c].kind = "login" =>
            /\ reqs[c].verify # "none" => reqs[c].lookup = "found"
            /\ reqs[c].dones > 0 => reqs[c].lookup # "none"
            /\ (reqs[c].dones > 0 /\ reqs[c].lookup = "found")
                   => reqs[c].verify \in {"true", "false", "error"}

---------------------------------------------------------------------------
(* Properties of the routes as a whole *)

(* Client c has a request in the server that has not been answered. *)
InFlight(c) == reqs[c].pc \notin {"idle", "done"}

(* C16: no request is answered twice and no strategy calls done twice;     *)
(* every request received is answered, with exactly one response; and      *)
(* every login whose strategy has started gets its one call of done.       *)
C16_OneResponseEach ==
    /\ [](\A c \in Clients : reqs[c].sends <= 1 /\ reqs[c].dones <= 1)
    /\ \A c \in Clients :
         InFlight(c) ~> (reqs[c].pc = "done" /\ reqs[c].sends = 1)
    /\ \A c \in Clients :
         (reqs[c].kind = "login" /\ reqs[c].pc = "fetch")
             ~> (reqs[c].kind = "login" /\ reqs[c].dones = 1)

(* Plaintext passwords that POST /user requests submit. *)
Submitted == {b.password : b \in UserBodies} \ {Undefined}

(* C17: in every state reached by POST /user requests, creating or         *)
(* updating, no row of the users table has as its password a plaintext     *)
(* that a request submitted.                                               *)
C17_NoPlaintextStored ==
    \A i \in 1..Len(users) : users[i].password \notin Submitted

===========================================================================
